---- MODULE Spec2Model ----
(***************************************************************************)
(* A model of the PAC (proxy auto-configuration) evaluator of              *)
(* src/request/providers/node/pac.ts: the predicate library the script     *)
(* sees, the Fiber bridge over dns.lookup, and pac(content, fileName),     *)
(* which runs the script once in a Fiber behind a Promise and returns the  *)
(* FindProxyForURL(url, host) facade.                                      *)
(*                                                                         *)
(* JavaScript runs one handler to completion before the next one starts,   *)
(* so each action below is one whole handler: a pac() call up to the first *)
(* Fiber.yield, an evaluate call, a Promise reaction, a dns.lookup         *)
(* callback with everything the resumed Fiber does until it yields again   *)
(* or ends.                                                                *)
(***************************************************************************)
EXTENDS Integers, Sequences, FiniteSets, TLC

VARIABLES
    evaluators,  \* one record per pac(content, fileName) call, in call order
    calls,       \* one record per FindProxyForURL(url, host) call, in call order
    lookups,     \* the dns.lookup requests whose callback has not run yet
    lastIndex,   \* dotRegExp.lastIndex: the module-level /\./g object's state
    clock,       \* what DateObject.now() reads: local and UTC day and time
    libCall      \* the last predicate-library call: function, arguments, result

vars == <<evaluators, calls, lookups, lastIndex, clock, libCall>>

----------------------------------------------------------------------------
(* Bounds of the model.                                                    *)

\* pac() calls made in one behaviour
MaxEvaluators == 2
\* FindProxyForURL(url, host) calls made in one behaviour
MaxCalls == 2
\* longest host name, in characters, given to the string predicates
MaxLen == 3

----------------------------------------------------------------------------
(* Values.                                                                 *)

\* An IPv4 address is its four octets. undefined, which a function without a
\* return statement returns, and the empty string are both falsy and are both
\* the empty sequence here.
Undefined == <<>>

\* an optional string argument that was not given
Absent == "undefined"

\* a || b, for a an address or undefined
OrElse(a, b) == IF a = <<>> THEN b ELSE a

\* '127.0.0.1'
Loopback == <<127, 0, 0, 1>>

\* Errors are their name, their message word by word, and the script file
\* their stack names: the fileName given to runInNewContext for an error
\* raised by the script's own code, "" for an error made elsewhere.
NoError == [name |-> "none", message |-> <<>>, file |-> ""]

----------------------------------------------------------------------------
(* Strings are sequences of characters.                                    *)

Alphabet == {"a", "."}

RECURSIVE StringsUpTo(_)
StringsUpTo(n) ==
    IF n = 0 THEN {<<>>}
    ELSE LET shorter == StringsUpTo(n - 1)
         IN  shorter \cup {Append(s, c) : s \in {t \in shorter : Len(t) = n - 1},
                                          c \in Alphabet}

HostNames == StringsUpTo(MaxLen) \ {<<>>}

\* the indexes (1-based) of the "." characters of s
Dots(s) == {i \in 1..Len(s) : s[i] = "."}

Min(S) == CHOOSE x \in S : \A y \in S : x <= y

\* dotRegExp.test(s) with dotRegExp.lastIndex = li (0-based, as in JavaScript):
\* a global regular expression searches from lastIndex on, leaves lastIndex
\* after the match, and resets it to 0 when nothing matches.
RegExpTest(s, li) ==
    LET from == {i \in Dots(s) : i - 1 >= li}
    IN  IF li > Len(s) \/ from = {}
        THEN [found |-> FALSE, lastIndex |-> 0]
        ELSE [found |-> TRUE, lastIndex |-> Min(from)]

\* String(s).match(dotRegExp): with the g flag every match is collected from
\* index 0 and lastIndex is left at 0; no match gives null.
StringMatch(s) == [matches |-> Cardinality(Dots(s)), lastIndex |-> 0]

\* hostdom.split('.')[0]
SplitFirst(s) ==
    IF Dots(s) = {} THEN s ELSE SubSeq(s, 1, Min(Dots(s)) - 1)

\* s.substr(start): from index start (0-based) to the end; a negative start
\* counts from the end and stops at the beginning; -0 is 0
Substr(s, start) ==
    LET from == IF start < 0
                THEN (IF Len(s) + start > 0 THEN Len(s) + start ELSE 0)
                ELSE (IF start < Len(s) THEN start ELSE Len(s))
    IN  SubSeq(s, from + 1, Len(s))

----------------------------------------------------------------------------
(* The predicate library: string predicates.                               *)

\* Each takes dotRegExp.lastIndex as li and gives the value returned and the
\* lastIndex left behind.
isPlainHostName(host, li) ==
    LET t == RegExpTest(host, li)
    IN  [result |-> ~t.found, lastIndex |-> t.lastIndex]

\* String(host).substr(domain.length * -1) === domain
dnsDomainIs(host, domain) == Substr(host, Len(domain) * (-1)) = domain

localHostOrDomainIs(host, hostdom, li) ==
    LET plain == isPlainHostName(host, li)
    IN  [result |-> IF ~plain.result THEN host = hostdom
                    ELSE host = SplitFirst(hostdom),
         lastIndex |-> plain.lastIndex]

dnsDomainLevels(host) ==
    LET m == StringMatch(host)
    IN  [result |-> m.matches, lastIndex |-> m.lastIndex]

----------------------------------------------------------------------------
(* The clock, DateObject.now().                                            *)

\* A reading of the clock: UTC is day, hours:minutes:seconds, and local time
\* is offset whole hours ahead of it (behind it when negative).
Reading(day, hours, offset, minutes, seconds) ==
    LET h == hours + offset
        localDay == IF h < 0 THEN (day + 6) % 7
                    ELSE IF h > 23 THEN (day + 1) % 7 ELSE day
    IN  [local |-> [dayOfWeek |-> localDay, hours |-> (h + 24) % 24,
                    minutes |-> minutes, seconds |-> seconds],
         utc |-> [dayOfWeek |-> day, hours |-> hours,
                  minutes |-> minutes, seconds |-> seconds]]

----------------------------------------------------------------------------
(* The predicate library: weekdayRange.                                    *)

Weekdays == {"SUN", "MON", "TUE", "WED", "THU", "FRI", "SAT"}

dayMap == [d \in Weekdays |->
             CASE d = "SUN" -> 0 [] d = "MON" -> 1 [] d = "TUE" -> 2
               [] d = "WED" -> 3 [] d = "THU" -> 4 [] d = "FRI" -> 5
               [] d = "SAT" -> 6]

\* dayMap[key] || -1: a missing key reads undefined, and 0 is falsy too
DayIndex(key) ==
    IF key \in Weekdays /\ dayMap[key] # 0 THEN dayMap[key] ELSE -1

weekdayInRange(today, start, end) == today >= start /\ today <= end

\* weekDay2 is "" when not given (its default), gmt is Absent when not given
weekdayRange(weekDay1, weekDay2, gmt, now) ==
    LET wd1 == DayIndex(weekDay1)
        wd2 == DayIndex(weekDay2)
        useUTC == weekDay2 = "GMT" \/ gmt = "GMT"
        today == IF useUTC THEN now.utc.dayOfWeek ELSE now.local.dayOfWeek
    IN  IF wd2 = -1 THEN wd1 = today
        ELSE IF wd1 <= wd2 THEN weekdayInRange(today, wd1, wd2)
        ELSE weekdayInRange(today, wd1, 6) \/ weekdayInRange(today, 0, wd2)

----------------------------------------------------------------------------
(* The predicate library: timeRange.                                       *)

DigitChars == <<"0", "1", "2", "3", "4", "5", "6", "7", "8", "9">>

DigitValue(c) == CHOOSE d \in 0..9 : DigitChars[d + 1] = c

\* String(n) for an integer n: its decimal digits, "-" first when negative
RECURSIVE NumberToString(_)
NumberToString(n) ==
    IF n < 0 THEN <<"-">> \o NumberToString(-n)
    ELSE IF n < 10 THEN <<DigitChars[n + 1]>>
    ELSE Append(NumberToString(n \div 10), DigitChars[(n % 10) + 1])

\* the number a string of decimal digits writes
RECURSIVE DecimalValue(_)
DecimalValue(s) ==
    IF s = <<>> THEN 0
    ELSE 10 * DecimalValue(SubSeq(s, 1, Len(s) - 1)) + DigitValue(s[Len(s)])

\* parseInt(arg, 10) for a number arg: the argument is turned into a string
\* and the string is read as a signed decimal integer
parseInt(arg) ==
    LET s == NumberToString(arg)
    IN  IF s[1] = "-" THEN 0 - DecimalValue(Tail(s)) ELSE DecimalValue(s)

\* getSeconds as it would be if a minute weighed one second
getSecondsMinuteIsOne(hours, minutes, seconds) ==
    (hours * 3600) + minutes + seconds

getSeconds(hours, minutes, seconds) == (hours * 3600) + (minutes * 60) + seconds

\* timeRange(...args): args are the numeric arguments, gmt is the trailing
\* 'GMT' argument (Absent when not given), which the function pops off the
\* list before it counts what is left.  DateObject.now() reads local time and
\* its .utc reads UTC: with 'GMT' the function reads the former, without it
\* the latter.
timeRange(args, gmt, now) ==
    LET useUTC == gmt = "GMT"
        t == IF useUTC THEN now.local ELSE now.utc
        integers == [i \in DOMAIN args |-> parseInt(args[i])]
    IN  IF Len(args) = 1 THEN t.hours = integers[1]
        ELSE IF Len(args) = 2
        THEN integers[1] <= t.hours /\ t.hours < integers[2]
        ELSE IF Len(args) = 4
        THEN LET seconds == getSeconds(t.hours, t.minutes, 0)
             IN  /\ getSeconds(integers[1], integers[2], 0) <= seconds
                 /\ seconds <= getSeconds(integers[3], integers[4], 59)
        ELSE IF Len(args) = 6
        THEN LET seconds == getSeconds(t.hours, t.minutes, t.seconds)
             IN  /\ getSeconds(integers[1], integers[2], integers[3]) <= seconds
                 /\ seconds <= getSeconds(integers[4], integers[5], integers[6])
        ELSE FALSE

----------------------------------------------------------------------------
(* Name resolution (dns.lookup) and network containment (netmask).         *)

\* the host names the scripts and the evaluate calls name
Hosts == {"intranet", "www.example.com", "nxdomain.invalid"}

ENOTFOUND(hostname) ==
    [name |-> "Error", message |-> <<"getaddrinfo", "ENOTFOUND", hostname>>,
     file |-> ""]

\* What dns.lookup(hostname, family, callback) passes to its callback: the
\* resolver's answer for the name, the same however often it is asked.
lookupAsync(hostname, family) ==
    CASE hostname = "intranet" ->
           [err |-> NoError, address |-> <<10, 0, 0, 5>>]
      [] hostname = "www.example.com" ->
           [err |-> NoError, address |-> <<10, 0, 1, 5>>]
      [] OTHER ->
           [err |-> ENOTFOUND(hostname), address |-> Undefined]

RECURSIVE BitAnd(_, _)
BitAnd(a, b) ==
    IF a = 0 \/ b = 0 THEN 0
    ELSE (a % 2) * (b % 2) + 2 * BitAnd(a \div 2, b \div 2)

\* new Netmask(pattern, mask).contains(ip): ip and the network agree on
\* every bit of the mask
NetmaskContains(pattern, mask, ip) ==
    \A i \in 1..4 : BitAnd(ip[i], mask[i]) = BitAnd(pattern[i], mask[i])

----------------------------------------------------------------------------
(* The Fiber bridge: lookup, and the predicates that call it.              *)

\* What the call lookup(host) evaluates to once fiber.run(address) has
\* resumed the Fiber: Fiber.yield() is the last statement of lookup and its
\* value is not returned.
lookup(address) == Undefined

\* ResumedFiber as it would be if the callback resumed whichever Fiber is
\* suspended, not the one that issued the request
ResumedFiberAny(request, suspended) == CHOOSE id \in suspended : TRUE

\* The Fiber the callback of a lookup resumes: the one that was current when
\* lookup was called (const fiber = Fiber.current), whichever Fibers are
\* suspended when the callback runs.
ResumedFiber(request, suspended) == request.fiber

\* dnsResolve(host), from the point lookup returns
dnsResolve(address) == OrElse(lookup(address), Loopback)

\* isInNet(host, pattern, mask), from the point lookup returns
isInNet(address, pattern, mask) ==
    LET ip == OrElse(lookup(address), Loopback)
    IN  NetmaskContains(pattern, mask, ip)

\* isResolvable as it would be if it never looked at what lookup raised
isResolvableAlways(answer) == TRUE

\* isResolvable(host), from the point lookup returns or raises: the try
\* around lookup catches what throwInto raised
isResolvable(answer) == answer.err = NoError

\* The statements a script is made of here: one predicate call each.
Call(op, host) ==
    [op |-> op, host |-> host, pattern |-> <<>>, mask |-> <<>>]

CallIsInNet(host) ==
    [op |-> "isInNet", host |-> host,
     pattern |-> <<10, 0, 0, 0>>, mask |-> <<255, 255, 255, 0>>]

\* A Fiber: the statement it is at, the value each finished statement gave,
\* and how it stands: suspended in lookup (inside the statement at pc),
\* returned, or ended by an error nothing caught.
NoFiber == [pc |-> 0, status |-> "none", rets |-> <<>>, error |-> NoError]

\* Run from statement pc until the next Fiber.yield() or the end.
RunFrom(prog, pc, rets) ==
    IF pc > Len(prog)
    THEN [pc |-> pc, status |-> "returned", rets |-> rets, error |-> NoError]
    ELSE [pc |-> pc, status |-> "suspended", rets |-> rets, error |-> NoError]

\* The callback of lookup on a Fiber f suspended in prog: throwInto(err)
\* raises err where the Fiber yielded, run(address) lets the yield return;
\* then the predicate finishes and the Fiber runs on.
Resume(f, prog, answer) ==
    LET st == prog[f.pc]
    IN  IF st.op = "isResolvable"
        THEN RunFrom(prog, f.pc + 1, Append(f.rets, isResolvable(answer)))
        ELSE IF answer.err # NoError
        THEN [f EXCEPT !.status = "threw", !.error = answer.err]
        ELSE LET ret == IF st.op = "dnsResolve"
                        THEN dnsResolve(answer.address)
                        ELSE isInNet(answer.address, st.pattern, st.mask)
             IN  RunFrom(prog, f.pc + 1, Append(f.rets, ret))

\* the dns.lookup request a Fiber that has just suspended has issued
Issued(id, f, prog) ==
    IF f.status = "suspended"
    THEN {[fiber |-> id, hostname |-> prog[f.pc].host, family |-> 4]}
    ELSE {}

----------------------------------------------------------------------------
(* Scripts.  top: the statements of the script's top level.  decl: what    *)
(* the name FindProxyForURL is after they ran: a function, a number, or    *)
(* not declared.  body: the statements of the function, which returns what *)
(* the last one gave; "host" stands for its host parameter.                *)

Script(top, decl, body) == [top |-> top, decl |-> decl, body |-> body]

Scripts ==
    { Script(<<>>, "function", <<Call("dnsResolve", "host")>>),
      Script(<<>>, "absent", <<>>),
      Script(<<Call("isResolvable", "nxdomain.invalid"),
               Call("isResolvable", "intranet")>>, "number", <<>>),
      Script(<<Call("dnsResolve", "intranet"), CallIsInNet("intranet")>>,
             "function", <<CallIsInNet("host")>>),
      Script(<<Call("dnsResolve", "nxdomain.invalid")>>, "function",
             <<Call("isResolvable", "host")>>) }

\* the optional fileName of pac(content, fileName)
FileNames == {"proxy.pac"}

\* the (url, host) pairs FindProxyForURL is called with
Requests ==
    { [url |-> "http://intranet/", host |-> "intranet"],
      [url |-> "http://nxdomain.invalid/", host |-> "nxdomain.invalid"] }

\* the function's statements with the host parameter bound
Bind(body, host) == [i \in DOMAIN body |-> [body[i] EXCEPT !.host = host]]

----------------------------------------------------------------------------
(* pac(content, fileName).                                                 *)

Pending == [state |-> "pending", value |-> NoError]

Rejected(error) == [state |-> "rejected", value |-> error]

\* raised in the script's context by reading a name that is not declared
ReferenceError(fileName) ==
    [name |-> "ReferenceError",
     message |-> <<"FindProxyForURL", "is", "not", "defined">>,
     file |-> fileName]

\* new TypeError('A PAC file must declare a function named "FindProxyForURL"')
MissingFunction ==
    [name |-> "TypeError",
     message |-> <<"A", "PAC", "file", "must", "declare", "a", "function",
                   "named", "\"FindProxyForURL\"">>,
     file |-> ""]

\* runInNewContext(`${content};FindProxyForURL`, ...) once the top level has
\* run: reading a name that was never declared raises a ReferenceError
CompletionValue(decl, fileName) ==
    IF decl = "absent"
    THEN [threw |-> ReferenceError(fileName), type |-> "undefined"]
    ELSE [threw |-> NoError, type |-> decl]

\* if (typeof pacFind !== 'function') throw new TypeError(...)
TypeCheck(type) == IF type # "function" THEN MissingFunction ELSE NoError

\* The state of the pacFind Promise when the Fiber of the executor yields or
\* ends: catch (error) { reject(error) } is the only place it is settled.
Executor(script, fileName, f, promise) ==
    IF f.status = "suspended" THEN promise
    ELSE IF f.status = "threw" THEN Rejected(f.error)
    ELSE LET v == CompletionValue(script.decl, fileName)
         IN  IF v.threw # NoError THEN Rejected(v.threw)
             ELSE IF TypeCheck(v.type) # NoError THEN Rejected(TypeCheck(v.type))
             ELSE promise

Init ==
    /\ evaluators = <<>>
    /\ calls = <<>>
    /\ lookups = {}
    /\ lastIndex = 0
    /\ clock = Reading(4, 12, 0, 0, 0)
    /\ libCall = [fn |-> "none", args |-> <<>>, result |-> FALSE]

\* pac(content, fileName): the Promise's executor runs the script in a new
\* Fiber, at once, up to its first lookup or its end.
Pac(script, fileName) ==
    /\ Len(evaluators) < MaxEvaluators
    /\ LET id == <<"compile", Len(evaluators) + 1>>
           f == RunFrom(script.top, 1, <<>>)
       IN  /\ evaluators' = Append(evaluators,
                 [script |-> script, fileName |-> fileName, runs |-> 1,
                  fiber |-> f,
                  pacFind |-> Executor(script, fileName, f, Pending)])
           /\ lookups' = lookups \cup Issued(id, f, script.top)
    /\ UNCHANGED <<calls, lastIndex, clock, libCall>>

\* Evaluate as it would be if every call ran the script again
EvaluateCompiling(e, request) ==
    /\ Len(calls) < MaxCalls
    /\ e \in DOMAIN evaluators
    /\ calls' = Append(calls,
          [evaluator |-> e, url |-> request.url, host |-> request.host,
           madeWhile |-> evaluators[e].pacFind.state,
           promise |-> Pending, result |-> Undefined, settled |-> 0,
           invoked |-> 0, fiber |-> NoFiber])
    /\ evaluators' = [evaluators EXCEPT ![e].runs = @ + 1]
    /\ UNCHANGED <<lookups, lastIndex, clock, libCall>>

\* FindProxyForURL(url, host): pacFind.then(...) registers the reaction and
\* returns the Promise derived from it.
Evaluate(e, request) ==
    /\ Len(calls) < MaxCalls
    /\ e \in DOMAIN evaluators
    /\ calls' = Append(calls,
          [evaluator |-> e, url |-> request.url, host |-> request.host,
           madeWhile |-> evaluators[e].pacFind.state,
           promise |-> Pending, result |-> Undefined, settled |-> 0,
           invoked |-> 0, fiber |-> NoFiber])
    /\ UNCHANGED <<evaluators, lookups, lastIndex, clock, libCall>>

\* The Promise of an evaluate call when its Fiber yields or ends:
\* resolve(pacFind(url, host)), or catch (error) { reject(error) }.
Settle(call, f) ==
    IF f.status = "suspended" THEN [call EXCEPT !.fiber = f]
    ELSE IF f.status = "threw"
    THEN [call EXCEPT !.fiber = f, !.promise = Rejected(f.error),
                      !.settled = @ + 1]
    ELSE [call EXCEPT !.fiber = f,
                      !.promise = [state |-> "fulfilled", value |-> NoError],
                      !.result = f.rets[Len(f.rets)], !.settled = @ + 1]

\* Then as it would be if a failed compilation were reported to the caller
\* by an error of the facade's own
ThenOwnError(c) ==
    /\ c \in DOMAIN calls
    /\ calls[c].promise.state = "pending"
    /\ evaluators[calls[c].evaluator].pacFind.state = "rejected"
    /\ calls' = [calls EXCEPT
          ![c].promise = Rejected([name |-> "Error",
                                   message |-> <<"compilation", "failed">>,
                                   file |-> ""]),
          ![c].settled = @ + 1]
    /\ UNCHANGED <<evaluators, lookups, lastIndex, clock, libCall>>

\* Then as it would be if the function were called without waiting for
\* pacFind to settle
ThenEager(c) ==
    /\ c \in DOMAIN calls
    /\ calls[c].promise.state = "pending"
    /\ calls[c].invoked = 0
    /\ LET ev == evaluators[calls[c].evaluator]
       IN  IF ev.pacFind.state = "rejected"
           THEN /\ calls' = [calls EXCEPT ![c].promise = Rejected(ev.pacFind.value),
                                          ![c].settled = @ + 1]
                /\ UNCHANGED lookups
           ELSE LET prog == Bind(ev.script.body, calls[c].host)
                    f == RunFrom(prog, 1, <<>>)
                IN  /\ calls' = [calls EXCEPT
                           ![c] = Settle([@ EXCEPT !.invoked = @ + 1], f)]
                    /\ lookups' = lookups \cup Issued(<<"eval", c>>, f, prog)
    /\ UNCHANGED <<evaluators, lastIndex, clock, libCall>>

\* Then as it would be if the reason of a failed compilation were kept in
\* one place for the whole process: a call is rejected with the reason of
\* the evaluator that failed last
ThenSharedReason(c) ==
    /\ c \in DOMAIN calls
    /\ calls[c].promise.state = "pending"
    /\ calls[c].invoked = 0
    /\ evaluators[calls[c].evaluator].pacFind.state = "rejected"
    /\ LET failed == {e \in DOMAIN evaluators :
                         evaluators[e].pacFind.state = "rejected"}
           last == CHOOSE e \in failed : \A x \in failed : x <= e
       IN  calls' = [calls EXCEPT
              ![c].promise = Rejected(evaluators[last].pacFind.value),
              ![c].settled = @ + 1]
    /\ UNCHANGED <<evaluators, lookups, lastIndex, clock, libCall>>

\* The reaction pacFind.then(pacFind => ...) of call c, run once pacFind is
\* settled: fulfilled, it calls the function in a new Fiber; rejected, the
\* derived Promise is rejected with the same reason (there is no onRejected).
Then(c) ==
    /\ c \in DOMAIN calls
    /\ calls[c].promise.state = "pending"
    /\ calls[c].invoked = 0
    /\ LET ev == evaluators[calls[c].evaluator]
       IN  /\ ev.pacFind.state # "pending"
           /\ IF ev.pacFind.state = "rejected"
              THEN /\ calls' = [calls EXCEPT ![c].promise = Rejected(ev.pacFind.value),
                                             ![c].settled = @ + 1]
                   /\ UNCHANGED lookups
              ELSE LET prog == Bind(ev.script.body, calls[c].host)
                       f == RunFrom(prog, 1, <<>>)
                   IN  /\ calls' = [calls EXCEPT
                              ![c] = Settle([@ EXCEPT !.invoked = @ + 1], f)]
                       /\ lookups' = lookups \cup Issued(<<"eval", c>>, f, prog)
    /\ UNCHANGED <<evaluators, lastIndex, clock, libCall>>

\* the Fibers suspended in lookup
Suspended ==
    {<<"compile", e>> : e \in {x \in DOMAIN evaluators :
                                 evaluators[x].fiber.status = "suspended"}}
    \cup {<<"eval", c>> : c \in {x \in DOMAIN calls :
                                   calls[x].fiber.status = "suspended"}}

FiberOf(id) ==
    IF id[1] = "compile" THEN evaluators[id[2]].fiber ELSE calls[id[2]].fiber

\* the statements Fiber id runs: the script's top level, or its function
ProgOf(id) ==
    IF id[1] = "compile" THEN evaluators[id[2]].script.top
    ELSE Bind(evaluators[calls[id[2]].evaluator].script.body, calls[id[2]].host)

\* The callback dns.lookup calls for request r: it resumes the Fiber that
\* issued r, which runs until it yields again or ends.
LookupCallback(r) ==
    /\ r \in lookups
    /\ LET id == ResumedFiber(r, Suspended)
           f == Resume(FiberOf(id), ProgOf(id), lookupAsync(r.hostname, r.family))
       IN  /\ lookups' = (lookups \ {r}) \cup Issued(id, f, ProgOf(id))
           /\ IF id[1] = "compile"
              THEN /\ evaluators' = [evaluators EXCEPT
                         ![id[2]].fiber = f,
                         ![id[2]].pacFind =
                             Executor(evaluators[id[2]].script,
                                      evaluators[id[2]].fileName, f, @)]
                   /\ UNCHANGED calls
              ELSE /\ calls' = [calls EXCEPT ![id[2]] = Settle(@, f)]
                   /\ UNCHANGED evaluators
    /\ UNCHANGED <<lastIndex, clock, libCall>>

Next ==
    \/ \E script \in Scripts, fileName \in FileNames : Pac(script, fileName)
    \/ \E e \in 1..MaxEvaluators, request \in Requests : Evaluate(e, request)
    \/ \E c \in 1..MaxCalls : Then(c)
    \/ \E r \in lookups : LookupCallback(r)

Spec == Init /\ [][Next]_vars

----------------------------------------------------------------------------
(* The predicate library called on its own: what a script sees of it,      *)
(* whichever script, Fiber or evaluator the call comes from.  dotRegExp is *)
(* one object of the module, shared by every call.                         *)

\* the readings weekdayRange is called at: every UTC day, local time on the
\* same day, on the day after and on the day before
ClockReadings ==
    {Reading(u, p[1], p[2], 0, 0) :
        u \in 0..6, p \in {<<12, 0>>, <<23, 1>>, <<0, -1>>}}

\* the readings timeRange is called at: a Thursday, 8 and 16 hours UTC,
\* local time the same or an hour ahead, in the first and the last minute of
\* the hour, 30 and 59 seconds into it
TimeReadings ==
    {Reading(4, h, offset, m, sec) :
        h \in {8, 16}, offset \in {0, 1}, m \in {0, 59}, sec \in {30, 59}}

\* the numeric arguments timeRange is called with: every count from none to
\* seven, hours 9 and 17, minutes and seconds 0 and 59
TimeArgs ==
    LET H == {9, 17}
        M == {0, 59}
    IN  {<<>>, <<9, 0, 0>>, <<9, 0, 0, 17, 0>>, <<9, 0, 0, 17, 0, 59, 0>>}
        \cup {<<h>> : h \in H}
        \cup {<<h1, h2>> : h1, h2 \in H}
        \cup {<<h1, m1, h2, m2>> : h1, h2 \in H, m1, m2 \in M}
        \cup {<<9, m1, s1, 17, m2, s2>> : m1, m2 \in M, s1, s2 \in M}

\* the second arguments given to localHostOrDomainIs
HostDoms == {<<"a">>, <<"a", ".", "a">>, <<".", "a">>}

CallIsPlainHostName(host) ==
    LET r == isPlainHostName(host, lastIndex)
    IN  /\ libCall' = [fn |-> "isPlainHostName", args |-> <<host>>,
                       result |-> r.result]
        /\ lastIndex' = r.lastIndex
        /\ UNCHANGED <<evaluators, calls, lookups, clock>>

CallLocalHostOrDomainIs(host, hostdom) ==
    LET r == localHostOrDomainIs(host, hostdom, lastIndex)
    IN  /\ libCall' = [fn |-> "localHostOrDomainIs", args |-> <<host, hostdom>>,
                       result |-> r.result]
        /\ lastIndex' = r.lastIndex
        /\ UNCHANGED <<evaluators, calls, lookups, clock>>

CallDnsDomainIs(host, domain) ==
    /\ libCall' = [fn |-> "dnsDomainIs", args |-> <<host, domain>>,
                   result |-> dnsDomainIs(host, domain)]
    /\ UNCHANGED <<evaluators, calls, lookups, lastIndex, clock>>

CallDnsDomainLevels(host) ==
    LET r == dnsDomainLevels(host)
    IN  /\ libCall' = [fn |-> "dnsDomainLevels", args |-> <<host>>,
                       result |-> r.result]
        /\ lastIndex' = r.lastIndex
        /\ UNCHANGED <<evaluators, calls, lookups, clock>>

\* DateObject.now() is read anew by every call
CallWeekdayRange(weekDay1, weekDay2, gmt) ==
    /\ libCall' = [fn |-> "weekdayRange", args |-> <<weekDay1, weekDay2, gmt>>,
                   result |-> weekdayRange(weekDay1, weekDay2, gmt, clock),
                   now |-> clock]
    /\ UNCHANGED <<evaluators, calls, lookups, lastIndex, clock>>

\* time passes between two calls
ClockAdvances(reading) ==
    /\ reading # clock
    /\ clock' = reading
    /\ UNCHANGED <<evaluators, calls, lookups, lastIndex, libCall>>

\* DateObject.now() is read anew by every call
CallTimeRange(args, gmt) ==
    /\ libCall' = [fn |-> "timeRange", args |-> args, gmt |-> gmt,
                   result |-> timeRange(args, gmt, clock), now |-> clock]
    /\ UNCHANGED <<evaluators, calls, lookups, lastIndex, clock>>

StringsNext ==
    \/ \E host \in HostNames : CallIsPlainHostName(host)
    \/ \E host \in HostNames, hostdom \in HostDoms :
          CallLocalHostOrDomainIs(host, hostdom)
    \/ \E host \in HostNames : CallDnsDomainLevels(host)
    \/ \E host \in StringsUpTo(MaxLen), domain \in StringsUpTo(MaxLen) :
          CallDnsDomainIs(host, domain)

\* the string predicates, called in any order with any host names
SpecStrings == Init /\ [][StringsNext]_vars

ClockNext ==
    \/ \E weekDay1 \in Weekdays, weekDay2 \in Weekdays \cup {"", "GMT"},
          gmt \in {Absent, "GMT"} : CallWeekdayRange(weekDay1, weekDay2, gmt)
    \/ \E reading \in ClockReadings : ClockAdvances(reading)

\* the predicates that read the clock, called at any time
SpecClock == Init /\ [][ClockNext]_vars

TimeNext ==
    \/ \E args \in TimeArgs, gmt \in {Absent, "GMT"} : CallTimeRange(args, gmt)
    \/ \E reading \in TimeReadings : ClockAdvances(reading)

\* timeRange, called at any time
SpecTime == Init /\ [][TimeNext]_vars

----------------------------------------------------------------------------
(* Notions the properties below share.                                     *)

\* the top level of evaluator e's script ran to its end and left a function
CompiledOK(e) ==
    /\ evaluators[e].fiber.status = "returned"
    /\ evaluators[e].script.decl = "function"

\* nothing is left to run: no lookup is outstanding and no reaction is due
Quiescent ==
    /\ lookups = {}
    /\ \A c \in DOMAIN calls : ~ENABLED Then(c)

\* every Fiber there is
FiberIds ==
    {<<"compile", e>> : e \in DOMAIN evaluators}
    \cup {<<"eval", c>> : c \in {x \in DOMAIN calls :
                                   calls[x].fiber.status # "none"}}

\* Fiber id with the statements it runs
FiberAt(id) == [fiber |-> FiberOf(id), prog |-> ProgOf(id)]

\* the statements of Fiber x whose lookup has called back
Answered(x) ==
    {i \in DOMAIN x.prog :
        \/ i <= Len(x.fiber.rets)
        \/ i = x.fiber.pc /\ x.fiber.status = "threw"}

Answer(st) == lookupAsync(st.host, 4)

\* a Fiber run on its own, every lookup answered as soon as it is issued
RECURSIVE Finish(_, _)
Finish(f, prog) ==
    IF f.status = "suspended"
    THEN Finish(Resume(f, prog, Answer(prog[f.pc])), prog)
    ELSE f

\* what call c comes to when the function is run for its (url, host) alone
OwnOutcome(c) ==
    LET prog == ProgOf(<<"eval", c>>)
    IN  Settle([calls[c] EXCEPT !.invoked = 1], Finish(RunFrom(prog, 1, <<>>), prog))

\* error names the script: in its message, or in its stack
Identifies(error, fileName) ==
    \/ \E i \in DOMAIN error.message : error.message[i] = fileName
    \/ error.file = fileName

----------------------------------------------------------------------------
(* C1..C19.                                                                *)

\* C1: no evaluate call settles twice; and a call on a script that has run
\* to its end and left a callable FindProxyForURL, whether made during or
\* after compilation, finds the evaluator Ready (pacFind fulfilled) and,
\* once nothing is left to run, has settled once with what the function
\* gives for its (url, host).
C1_EvaluateSettlesOnce ==
    \A c \in DOMAIN calls :
       /\ calls[c].settled <= 1
       /\ CompiledOK(calls[c].evaluator) =>
             /\ evaluators[calls[c].evaluator].pacFind.state = "fulfilled"
             /\ Quiescent =>
                   /\ calls[c].settled = 1
                   /\ calls[c].promise = OwnOutcome(c).promise
                   /\ calls[c].result = OwnOutcome(c).result

\* C2: once pacFind is rejected it stays rejected with the same error; a
\* call on that evaluator, made before or after the failure, never has the
\* function invoked, is rejected once with that error or is still pending
\* with its reaction due, and the script is not run again.
C2_Inv ==
    \A c \in DOMAIN calls :
       LET ev == evaluators[calls[c].evaluator]
       IN  ev.pacFind.state = "rejected" =>
              /\ calls[c].invoked = 0
              /\ calls[c].fiber = NoFiber
              /\ ev.runs = 1
              /\ \/ /\ calls[c].promise = Rejected(ev.pacFind.value)
                    /\ calls[c].settled = 1
                 \/ /\ calls[c].promise = Pending
                    /\ calls[c].settled = 0
                    /\ ENABLED Then(c)

C2_Stable ==
    \A e \in DOMAIN evaluators :
       evaluators[e].pacFind.state = "rejected" =>
          /\ evaluators'[e].pacFind = evaluators[e].pacFind
          /\ evaluators'[e].fiber = evaluators[e].fiber

C2_FailedIsTerminal == []C2_Inv /\ [][C2_Stable]_vars

\* C2 witness: a failed evaluator with a call made while it was compiling
\* and a call made after it failed, both rejected with its error.
C2_Witness ==
    \E c1, c2 \in DOMAIN calls :
       /\ calls[c1].evaluator = calls[c2].evaluator
       /\ calls[c1].madeWhile = "pending"
       /\ calls[c2].madeWhile = "rejected"
       /\ evaluators[calls[c1].evaluator].pacFind.state = "rejected"
       /\ calls[c1].promise = evaluators[calls[c1].evaluator].pacFind
       /\ calls[c2].promise = evaluators[calls[c1].evaluator].pacFind

\* C3: the script body of every evaluator has been executed exactly once,
\* whatever evaluate calls were made and however they interleaved with its
\* compilation.
C3_ScriptRunsOnce ==
    \A e \in DOMAIN evaluators : evaluators[e].runs = 1

\* C3 witness: an evaluator whose compilation suspended and has ended, with
\* one call made while it was suspended and one made afterwards.
C3_Witness ==
    \E c1, c2 \in DOMAIN calls :
       /\ c1 # c2
       /\ calls[c1].evaluator = calls[c2].evaluator
       /\ LET ev == evaluators[calls[c1].evaluator]
          IN  /\ ev.fiber.status = "returned"
              /\ Len(ev.fiber.rets) > 0
              /\ ev.runs = 1
              /\ calls[c1].madeWhile = "pending"
              /\ lookups = {}

\* C4: when the top level has run to its end and FindProxyForURL is absent
\* or not callable, pacFind is rejected with an error that names the script.
C4_RejectsNamingTheScript ==
    \A e \in DOMAIN evaluators :
       LET ev == evaluators[e]
       IN  ev.fiber.status = "returned" /\ ev.script.decl # "function" =>
              /\ ev.pacFind.state = "rejected"
              /\ Identifies(ev.pacFind.value, ev.fileName)

\* C5: once nothing is left to run, two evaluate calls with different hosts
\* on successfully compiled scripts have each received the result of their
\* own host's resolution.
C5_NoCrossTalk ==
    Quiescent =>
       \A c1, c2 \in DOMAIN calls :
          /\ calls[c1].host # calls[c2].host
          /\ CompiledOK(calls[c1].evaluator)
          /\ CompiledOK(calls[c2].evaluator)
          => /\ calls[c1].settled = 1
             /\ calls[c1].promise = OwnOutcome(c1).promise
             /\ calls[c1].result = OwnOutcome(c1).result

\* C6: a dnsResolve(host) whose lookup succeeded with a non-empty address
\* returned that address.
C6_DnsResolveReturnsAddress ==
    \A id \in FiberIds : LET x == FiberAt(id) IN \A i \in Answered(x) :
       /\ x.prog[i].op = "dnsResolve"
       /\ Answer(x.prog[i]).err = NoError
       /\ Answer(x.prog[i]).address # <<>>
       => /\ i <= Len(x.fiber.rets)
          /\ x.fiber.rets[i] = Answer(x.prog[i]).address

\* C7: a dnsResolve or isInNet whose lookup failed did not raise the error
\* into the script: dnsResolve returned 127.0.0.1 and isInNet the
\* containment of 127.0.0.1.
C7_FailureFallsBack ==
    \A id \in FiberIds : LET x == FiberAt(id) IN \A i \in Answered(x) :
       /\ x.prog[i].op \in {"dnsResolve", "isInNet"}
       /\ Answer(x.prog[i]).err # NoError
       => /\ i <= Len(x.fiber.rets)
          /\ x.fiber.rets[i] =
                IF x.prog[i].op = "dnsResolve" THEN Loopback
                ELSE NetmaskContains(x.prog[i].pattern, x.prog[i].mask, Loopback)

\* C8: an isInNet(host, pattern, mask) whose lookup succeeded returned
\* whether the address host resolved to lies in pattern/mask: true for
\* 10.0.0.5 in 10.0.0.0/255.255.255.0, false for 10.0.1.5.
C8_IsInNetTestsResolvedAddress ==
    \A id \in FiberIds : LET x == FiberAt(id) IN \A i \in Answered(x) :
       /\ x.prog[i].op = "isInNet"
       /\ Answer(x.prog[i]).err = NoError
       => /\ i <= Len(x.fiber.rets)
          /\ x.fiber.rets[i] =
                NetmaskContains(x.prog[i].pattern, x.prog[i].mask,
                                Answer(x.prog[i]).address)

\* C9: every call isPlainHostName(h) returns true iff h holds no ".",
\* whatever predicate calls came before it.
C9_IsPlainHostName ==
    libCall.fn = "isPlainHostName" =>
       libCall.result = (\A i \in DOMAIN libCall.args[1] :
                            libCall.args[1][i] # ".")

\* C10: weekdayRange(day1) is true iff today is day1, and
\* weekdayRange(day1, day2) iff today lies in day1..day2, wrapping over the
\* end of the week when day1 > day2; today is the UTC day when "GMT" is
\* given and the local day otherwise.
C10_WeekdayRange ==
    libCall.fn = "weekdayRange" =>
       LET day1 == dayMap[libCall.args[1]]
           second == libCall.args[2]
           today == IF second = "GMT" \/ libCall.args[3] = "GMT"
                    THEN libCall.now.utc.dayOfWeek
                    ELSE libCall.now.local.dayOfWeek
       IN  libCall.result =
              IF second \notin Weekdays THEN today = day1
              ELSE IF day1 <= dayMap[second]
              THEN day1 <= today /\ today <= dayMap[second]
              ELSE today >= day1 \/ today <= dayMap[second]

\* C11: timeRange(h1, h2) without "GMT" is true iff the local hour h has
\* h1 <= h < h2, whatever the UTC hour is; with "GMT" iff the UTC hour has.
C11_TimeRangeHours ==
    libCall.fn = "timeRange" /\ Len(libCall.args) = 2 =>
       LET h == IF libCall.gmt = "GMT" THEN libCall.now.utc.hours
                ELSE libCall.now.local.hours
       IN  libCall.result = (libCall.args[1] <= h /\ h < libCall.args[2])

\* C17: a timeRange call with four numeric arguments h1, m1, h2, m2 gives
\* what the call with h1, m1, 0, h2, m2, 59 gives at the same reading of the
\* clock, and a call with 0, 3, 5 or more than 6 numeric arguments gives
\* false.
C17_FourArgumentsAsSix ==
    libCall.fn = "timeRange" =>
       LET a == libCall.args
       IN  /\ Len(a) = 4 =>
                libCall.result =
                   timeRange(<<a[1], a[2], 0, a[3], a[4], 59>>,
                             libCall.gmt, libCall.now)
           /\ Len(a) \in {0, 3, 5} \/ Len(a) > 6 => libCall.result = FALSE

\* C17 witness: a four-argument call made 30 seconds into the last minute
\* of its range, which is true.
C17_Witness ==
    /\ libCall.fn = "timeRange"
    /\ libCall.args = <<9, 0, 17, 59>>
    /\ libCall.gmt = "GMT"
    /\ libCall.now.local.hours = 17
    /\ libCall.now.local.minutes = 59
    /\ libCall.now.local.seconds = 30
    /\ libCall.result = TRUE

\* C12: an isResolvable(host) whose lookup has called back returned true
\* when the resolution succeeded and false when it failed; the failure was
\* not raised into the script: the Fiber did not end by it, and the Promise
\* the Fiber runs behind (pacFind, or that of the evaluate call the function
\* was invoked for) is not rejected with it.
C12_IsResolvableSwallows ==
    /\ \A id \in FiberIds : LET x == FiberAt(id) IN \A i \in Answered(x) :
          x.prog[i].op = "isResolvable" =>
             /\ i <= Len(x.fiber.rets)
             /\ x.fiber.rets[i] = (Answer(x.prog[i]).err = NoError)
             /\ Answer(x.prog[i]).err # NoError =>
                   x.fiber.error # Answer(x.prog[i]).err
    /\ \A e \in DOMAIN evaluators :
          \A i \in DOMAIN evaluators[e].script.top :
             LET st == evaluators[e].script.top[i]
             IN  st.op = "isResolvable" /\ Answer(st).err # NoError =>
                    evaluators[e].pacFind # Rejected(Answer(st).err)
    /\ \A c \in DOMAIN calls :
          \A i \in DOMAIN ProgOf(<<"eval", c>>) :
             LET st == ProgOf(<<"eval", c>>)[i]
             IN  /\ calls[c].invoked > 0
                 /\ st.op = "isResolvable"
                 /\ Answer(st).err # NoError
                 => calls[c].promise # Rejected(Answer(st).err)

\* C12 witness: a Fiber that called isResolvable on a name that does not
\* resolve and then on one that does, and has run to its end.
C12_Witness ==
    \E id \in FiberIds : LET x == FiberAt(id) IN
       /\ Len(x.prog) = 2
       /\ x.prog[1].op = "isResolvable" /\ Answer(x.prog[1]).err # NoError
       /\ x.prog[2].op = "isResolvable" /\ Answer(x.prog[2]).err = NoError
       /\ x.fiber.status = "returned"
       /\ x.fiber.rets = <<FALSE, TRUE>>

\* C13: an evaluate call is never kept waiting by an earlier one: while an
\* earlier call on the same successfully compiled evaluator has not settled
\* (it may be suspended in its lookup), a later call has settled, or is
\* suspended in a lookup of its own whose callback can run, or has its
\* reaction due.
C13_LaterCallNotQueued ==
    \A c1, c2 \in DOMAIN calls :
       /\ c1 < c2
       /\ calls[c1].evaluator = calls[c2].evaluator
       /\ CompiledOK(calls[c1].evaluator)
       /\ calls[c1].settled = 0
       => \/ calls[c2].settled = 1
          \/ ENABLED Then(c2)
          \/ \E r \in lookups : r.fiber = <<"eval", c2>> /\ ENABLED LookupCallback(r)

\* what the evaluator's compilation alone makes of call c: rejected with
\* pacFind's reason when compilation failed, what the function gives for the
\* call's own (url, host) when it succeeded
Determined(c) ==
    LET ev == evaluators[calls[c].evaluator]
    IN  IF ev.pacFind.state = "rejected"
        THEN [calls[c] EXCEPT !.promise = Rejected(ev.pacFind.value)]
        ELSE OwnOutcome(c)

C15_ErrorRejectsOnlyItsCall ==
    Quiescent =>
       \A c1, c2 \in DOMAIN calls :
          /\ c1 # c2
          /\ calls[c1].evaluator = calls[c2].evaluator
          /\ CompiledOK(calls[c1].evaluator)
          /\ OwnOutcome(c1).promise.state = "rejected"
          => /\ calls[c1].promise = OwnOutcome(c1).promise
             /\ calls[c2].settled = 1
             /\ calls[c2].promise = OwnOutcome(c2).promise
             /\ calls[c2].result = OwnOutcome(c2).result
             /\ evaluators[calls[c1].evaluator].pacFind.state = "fulfilled"

\* the lookups Fiber id has outstanding
Outstanding(id) == {r \in lookups : r.fiber = id}

\* the Fibers that have finished: returned, or ended by an error
Finished ==
    {id \in FiberIds : FiberOf(id).status \in {"returned", "threw"}}

\* C16: every Fiber has at most one lookup outstanding, and is suspended
\* iff it has exactly one; every outstanding lookup is some Fiber's.
C16_Inv ==
    /\ \A id \in FiberIds :
          /\ Cardinality(Outstanding(id)) <= 1
          /\ FiberOf(id).status = "suspended"
                <=> Cardinality(Outstanding(id)) = 1
    /\ \A r \in lookups : r.fiber \in FiberIds

\* C16, the steps: a callback ends exactly one suspension, that of the
\* Fiber its request belongs to, which runs on from the statement it was
\* suspended in with the value or with the error (one of the two); a Fiber
\* that is not suspended, or has finished, is never resumed: it changes in
\* no step.
C16_Step ==
    /\ \A id \in FiberIds :
          FiberOf(id).status # "suspended" =>
             /\ id \in FiberIds'
             /\ FiberOf(id)' = FiberOf(id)
    /\ \A r \in lookups \ lookups' :
          /\ lookups \ lookups' = {r}
          /\ FiberOf(r.fiber).status = "suspended"
          /\ FiberOf(r.fiber)' # FiberOf(r.fiber)
          /\ \A id \in FiberIds \ {r.fiber} : FiberOf(id)' = FiberOf(id)
          /\ LET answer == lookupAsync(r.hostname, r.family)
                 st == ProgOf(r.fiber)[FiberOf(r.fiber).pc]
             IN  (answer.err # NoError /\ st.op # "isResolvable")
                    <=> FiberOf(r.fiber)'.status = "threw"

C16_OneLookupOneResume == []C16_Inv /\ [][C16_Step]_vars

\* C16 witness: a Fiber that was suspended twice and resumed twice has
\* finished, while another Fiber is suspended on its one lookup.
C16_Witness ==
    \E id1, id2 \in FiberIds :
       /\ FiberOf(id1).status = "returned"
       /\ Len(FiberOf(id1).rets) = 2
       /\ FiberOf(id2).status = "suspended"
       /\ Cardinality(Outstanding(id2)) = 1

\* host ends with the characters of domain
EndsWith(host, domain) ==
    /\ Len(domain) <= Len(host)
    /\ SubSeq(host, Len(host) - Len(domain) + 1, Len(host)) = domain

\* C18: dnsDomainIs(host, domain) is true iff host ends with domain, for
\* every host and domain, the empty domain and a domain longer than host
\* included.
C18_DnsDomainIs ==
    libCall.fn = "dnsDomainIs" =>
       libCall.result = EndsWith(libCall.args[1], libCall.args[2])

\* C19: an evaluate call for which the function has been invoked or has a
\* Fiber is on an evaluator whose top level has run to its end and left a
\* function, with pacFind fulfilled; no call has it invoked more than once;
\* and in every step that invokes it the top level had already finished.
C19_Inv ==
    \A c \in DOMAIN calls :
       /\ calls[c].invoked <= 1
       /\ calls[c].invoked > 0 \/ calls[c].fiber # NoFiber =>
             /\ CompiledOK(calls[c].evaluator)
             /\ evaluators[calls[c].evaluator].pacFind.state = "fulfilled"

C19_Step ==
    \A c \in DOMAIN calls :
       calls'[c].invoked # calls[c].invoked =>
          /\ calls[c].invoked = 0
          /\ CompiledOK(calls[c].evaluator)
          /\ Outstanding(<<"compile", calls[c].evaluator>>) = {}

C19_InvokedAfterCompilation == []C19_Inv /\ [][C19_Step]_vars

\* C19 witness: an evaluate call has been made on an evaluator whose top
\* level is suspended in a lookup, and the function has not been invoked.
C19_Witness ==
    \E c \in DOMAIN calls :
       /\ evaluators[calls[c].evaluator].fiber.status = "suspended"
       /\ evaluators[calls[c].evaluator].script.decl = "function"
       /\ calls[c].invoked = 0
       /\ calls[c].promise = Pending

====
